---- MODULE Spec2Model ----
(***************************************************************************)
(* Model of src/kernel_evm/kernel/src/storage.rs: the persistence layer of *)
(* the EVM kernel over the smart-rollup durable store.                     *)
(*                                                                         *)
(* The durable store is a function from paths (sequences of path segments, *)
(* each a string) to byte sequences (bytes are 0..255).  Every function of *)
(* storage.rs is an operator that takes the host state                     *)
(*     st = [store |-> the durable store, log |-> the host calls that      *)
(*           changed it, in order]                                         *)
(* and returns a result record [ok, err, st, val], the `?` of the source   *)
(* being the early return of the first failing step.  The host state also  *)
(* carries `fuel`: how many more writes and deletes the host performs      *)
(* before it fails one (NoFault: it fails none).                           *)
(***************************************************************************)
EXTENDS Integers, Sequences, FiniteSets, TLC

VARIABLES
    store,  \* the durable store: path -> bytes
    pre,    \* the durable store as it was before the last call
    log,    \* the host writes and deletes performed by the last call
    call,   \* the last call: operation and arguments
    ret,    \* what the last call returned
    ghost   \* per transaction hash, the history of its reassembly

vars == <<store, pre, log, call, ret, ghost>>

(***************************************************************************)
(* Program constants.                                                      *)
(***************************************************************************)
\* The store's cap on the bytes of one read or write: 2048 in the host,
\* scaled down here to the length of two transaction hashes.
MAX_FILE_CHUNK_SIZE == 64
TRANSACTION_HASH_SIZE == 32
ADDRESS_SIZE == 20
WORD_SIZE == 32
MAX_TRANSACTION_HASHES == TRANSACTION_HASH_SIZE * 128
CURRENT_BLOCK_NUMBER_SIZE == 8
NUM_CHUNKS_SIZE == 2
U16_MODULUS == 65536

SMART_ROLLUP_ADDRESS == <<"metadata", "smart_rollup_address">>
EVM_CURRENT_BLOCK == <<"evm", "blocks", "current">>
EVM_BLOCKS == <<"evm", "blocks">>
BLOCKS_NUMBER == <<"number">>
BLOCKS_HASH == <<"hash">>
BLOCKS_TRANSACTIONS == <<"transactions">>
EVM_TRANSACTIONS_RECEIPTS == <<"evm", "transactions_receipts">>
EVM_TRANSACTIONS_OBJECTS == <<"evm", "transactions_objects">>
TRANSACTION_OBJECT_BLOCK_HASH == <<"block_hash">>
TRANSACTION_OBJECT_BLOCK_NUMBER == <<"block_number">>
TRANSACTION_OBJECT_FROM == <<"from">>
TRANSACTION_OBJECT_GAS_USED == <<"gas_used">>
TRANSACTION_OBJECT_GAS_PRICE == <<"gas_price">>
TRANSACTION_OBJECT_INPUT == <<"input">>
TRANSACTION_OBJECT_NONCE == <<"nonce">>
TRANSACTION_OBJECT_TO == <<"to">>
TRANSACTION_OBJECT_INDEX == <<"index">>
TRANSACTION_OBJECT_VALUE == <<"value">>
TRANSACTION_OBJECT_V == <<"v">>
TRANSACTION_OBJECT_R == <<"r">>
TRANSACTION_OBJECT_S == <<"s">>
CHUNKED_TRANSACTIONS == <<"chunked_transactions">>
CHUNKED_TRANSACTION_NUM_CHUNKS == <<"num_chunks">>

(***************************************************************************)
(* Results and errors.                                                     *)
(***************************************************************************)
NoError == [tag |-> "none", expected |-> 0, actual |-> 0]
RuntimeError(t) == [tag |-> t, expected |-> 0, actual |-> 0]
InvalidLoadValue(e, a) == [tag |-> "InvalidLoadValue", expected |-> e, actual |-> a]

Ok(st, v) == [ok |-> TRUE, err |-> NoError, st |-> st, val |-> v]
Err(st, e) == [ok |-> FALSE, err |-> e, st |-> st, val |-> <<>>]

Min(a, b) == IF a <= b THEN a ELSE b

(***************************************************************************)
(* The durable store (host): read, write, delete, has, value_size,         *)
(* count_subkeys.                                                          *)
(***************************************************************************)
EmptyStore == [p \in {} |-> <<>>]

IsPrefix(p, q) == Len(p) <= Len(q) /\ SubSeq(q, 1, Len(p)) = p

HasSubtree(s, p) == \E q \in DOMAIN s : Len(q) > Len(p) /\ IsPrefix(p, q)

host_store_has(s, p) ==
    IF p \in DOMAIN s
    THEN IF HasSubtree(s, p) THEN "ValueWithSubtree" ELSE "Value"
    ELSE IF HasSubtree(s, p) THEN "Subtree" ELSE "None"

host_store_value_size(st, p) ==
    IF p \in DOMAIN st.store THEN Ok(st, Len(st.store[p]))
    ELSE Err(st, RuntimeError("PathNotFound"))

\* A read returns the bytes from `offset`, at most max_bytes and at most
\* MAX_FILE_CHUNK_SIZE of them; reading at or past the end of the value fails.
host_store_read(st, p, offset, max_bytes) ==
    IF p \notin DOMAIN st.store THEN Err(st, RuntimeError("PathNotFound"))
    ELSE IF offset >= Len(st.store[p]) THEN Err(st, RuntimeError("StoreInvalidAccess"))
    ELSE Ok(st, SubSeq(st.store[p], offset + 1,
                       Min(Len(st.store[p]),
                           offset + Min(max_bytes, MAX_FILE_CHUNK_SIZE))))

\* The host fails none of its writes and deletes.
NoFault == -1

\* The error of a write or delete that the host fails (I/O, out of space).
HostFailure == RuntimeError("GenericInvalidAccess")

\* The host state after one more write or delete was performed.
Spent(fuel) == IF fuel > 0 THEN fuel - 1 ELSE fuel

\* A write replaces the bytes from `offset` on and extends the value when it
\* ends past its end; it never shortens a value.  It fails when it carries
\* more than MAX_FILE_CHUNK_SIZE bytes or starts past the end of the value.
WriteAt(old, offset, bytes) ==
    SubSeq(old, 1, offset) \o bytes
        \o SubSeq(old, offset + Len(bytes) + 1, Len(old))

host_store_write(st, p, bytes, offset) ==
    LET old == IF p \in DOMAIN st.store THEN st.store[p] ELSE <<>>
    IN  IF st.fuel = 0
        THEN Err([st EXCEPT !.fuel = NoFault], HostFailure)
        ELSE IF Len(bytes) > MAX_FILE_CHUNK_SIZE
        THEN Err(st, RuntimeError("StoreValueSizeExceeded"))
        ELSE IF offset > Len(old)
        THEN Err(st, RuntimeError("StoreInvalidAccess"))
        ELSE Ok([store |-> [q \in DOMAIN st.store \cup {p} |->
                              IF q = p THEN WriteAt(old, offset, bytes)
                              ELSE st.store[q]],
                 log |-> Append(st.log, [op |-> "write", path |-> p,
                                         offset |-> offset, bytes |-> bytes]),
                 fuel |-> Spent(st.fuel)],
                <<>>)

\* A delete removes the node and its whole subtree; it fails on a path that
\* is absent.
host_store_delete(st, p) ==
    IF st.fuel = 0
    THEN Err([st EXCEPT !.fuel = NoFault], HostFailure)
    ELSE IF host_store_has(st.store, p) = "None"
    THEN Err(st, RuntimeError("PathNotFound"))
    ELSE Ok([store |-> [q \in {q \in DOMAIN st.store : ~IsPrefix(p, q)} |->
                          st.store[q]],
             log |-> Append(st.log, [op |-> "delete", path |-> p,
                                     offset |-> 0, bytes |-> <<>>]),
             fuel |-> Spent(st.fuel)],
            <<>>)

\* The number of direct children of a node.
host_store_count_subkeys(st, p) ==
    Ok(st, Cardinality({q[Len(p) + 1] :
                          q \in {q \in DOMAIN st.store :
                                   Len(q) > Len(p) /\ IsPrefix(p, q)}}))

\* Runtime::store_read_slice: fills the buffer from `offset` and returns the
\* bytes read, at most the length of the buffer.
host_store_read_slice(st, p, offset, buffer_len) ==
    host_store_read(st, p, offset, buffer_len)

(***************************************************************************)
(* Encodings.                                                              *)
(***************************************************************************)
HexChar == <<"0", "1", "2", "3", "4", "5", "6", "7",
             "8", "9", "a", "b", "c", "d", "e", "f">>

\* hex::encode that writes one digit per byte, the low one.
RECURSIVE hex_encode_low(_)
hex_encode_low(bytes) ==
    IF bytes = <<>> THEN ""
    ELSE HexChar[(Head(bytes) % 16) + 1] \o hex_encode_low(Tail(bytes))

\* hex::encode: two lower-case hexadecimal digits per byte.
RECURSIVE hex_encode(_)
hex_encode(bytes) ==
    IF bytes = <<>> THEN ""
    ELSE HexChar[(Head(bytes) \div 16) + 1] \o HexChar[(Head(bytes) % 16) + 1]
            \o hex_encode(Tail(bytes))

\* The decimal digits of a machine integer (format!("{}", i)).
RECURSIVE decimal(_)
decimal(n) ==
    IF n < 10 THEN HexChar[n + 1]
    ELSE decimal(n \div 10) \o HexChar[(n % 10) + 1]

\* The `width` little-endian bytes of a machine integer (to_le_bytes).
RECURSIVE to_le_bytes(_, _)
to_le_bytes(n, width) ==
    IF width = 0 THEN <<>>
    ELSE <<n % 256>> \o to_le_bytes(n \div 256, width - 1)

\* The machine integer of little-endian bytes (from_le_bytes).
RECURSIVE from_le_bytes(_)
from_le_bytes(bytes) ==
    IF bytes = <<>> THEN 0
    ELSE Head(bytes) + 256 * from_le_bytes(Tail(bytes))

(***************************************************************************)
(* U256: four 64-bit limbs, the least significant first (the limbs of the  *)
(* model stay below 2^31).                                                 *)
(***************************************************************************)
U256_LIMBS == 4
U64_SIZE == 8

U256(l0, l1) == <<l0, l1, 0, 0>>

\* U256::to_little_endian: the 32 bytes of the value, least significant
\* first.
RECURSIVE u256_limbs_to_le(_)
u256_limbs_to_le(limbs) ==
    IF limbs = <<>> THEN <<>>
    ELSE to_le_bytes(Head(limbs), U64_SIZE) \o u256_limbs_to_le(Tail(limbs))

u256_to_little_endian(u) == u256_limbs_to_le(u)

\* U256::from_little_endian of a slice of at most 32 bytes: the missing high
\* bytes are zero.
u256_from_little_endian(slice) ==
    LET padded == slice \o [j \in 1..(WORD_SIZE - Len(slice)) |-> 0]
    IN  [l \in 1..U256_LIMBS |->
            from_le_bytes(SubSeq(padded, U64_SIZE * (l - 1) + 1, U64_SIZE * l))]

Reverse(bytes) == [j \in 1..Len(bytes) |-> bytes[Len(bytes) + 1 - j]]

\* One division by ten of a big-endian byte string: <<quotient, remainder>>.
RECURSIVE div10(_, _)
div10(bytes, carry) ==
    IF bytes = <<>> THEN <<<<>>, carry>>
    ELSE LET cur == carry * 256 + Head(bytes)
             rest == div10(Tail(bytes), cur % 10)
         IN  <<<<cur \div 10>> \o rest[1], rest[2]>>

RECURSIVE decimal_digits(_)
decimal_digits(bytes) ==
    IF \A j \in 1..Len(bytes) : bytes[j] = 0 THEN ""
    ELSE LET d == div10(bytes, 0)
         IN  decimal_digits(d[1]) \o HexChar[d[2] + 1]

\* U256::to_string: the decimal digits of the value.
u256_to_string(u) ==
    IF \A l \in 1..U256_LIMBS : u[l] = 0 THEN "0"
    ELSE decimal_digits(Reverse(u256_to_little_endian(u)))

(***************************************************************************)
(* Path addressing.                                                        *)
(***************************************************************************)
concat(p, q) == p \o q

\* The block numbers of the model, and U256::to_string of each (computed
\* once).
U256Values == {U256(l0, l1) : l0 \in 0..1, l1 \in 0..1}
DecimalOf == [u \in U256Values |-> u256_to_string(u)]
to_string(u) == IF u \in U256Values THEN DecimalOf[u] ELSE u256_to_string(u)

block_path(number) == concat(EVM_BLOCKS, <<to_string(number)>>)

\* The transaction hashes of the model, and hex::encode of each (computed
\* once).
TxHash(seed) == [j \in 1..TRANSACTION_HASH_SIZE |-> (seed + j) % 256]
TxHashes == {TxHash(16), TxHash(170)}
HexOf == [h \in TxHashes |-> hex_encode(h)]
encode(h) == IF h \in TxHashes THEN HexOf[h] ELSE hex_encode(h)

receipt_path(receipt_hash) ==
    concat(EVM_TRANSACTIONS_RECEIPTS, <<encode(receipt_hash)>>)

object_path(object_hash) ==
    concat(EVM_TRANSACTIONS_OBJECTS, <<encode(object_hash)>>)

chunked_transaction_path(tx_hash) ==
    concat(CHUNKED_TRANSACTIONS, <<encode(tx_hash)>>)

chunked_transaction_num_chunks_path(path) ==
    concat(path, CHUNKED_TRANSACTION_NUM_CHUNKS)

transaction_chunk_path(path, i) == concat(path, <<decimal(i)>>)

(***************************************************************************)
(* Fixed-size reads.                                                       *)
(***************************************************************************)
store_read_empty_safe(st, path, offset, max_bytes) ==
    LET size == host_store_value_size(st, path)
    IN  IF ~size.ok THEN size
        ELSE IF size.val = 0 THEN Ok(st, <<>>)
        ELSE host_store_read(st, path, offset, max_bytes)

\* Reads into a buffer of buffer_len bytes; val is the part of the buffer
\* that was filled.
store_read_slice(st, path, buffer_len, expected_size) ==
    LET r == host_store_read_slice(st, path, 0, buffer_len)
    IN  IF ~r.ok THEN r
        ELSE IF Len(r.val) = expected_size THEN Ok(st, r.val)
        ELSE Err(st, InvalidLoadValue(expected_size, Len(r.val)))

(***************************************************************************)
(* Blocks.                                                                 *)
(***************************************************************************)
\* L2Block::new(number, transactions): the hash of a new block is made of
\* the 32 big-endian bytes of its number.
L2Block_new(number, transactions) ==
    [number |-> number,
     hash |-> Reverse(u256_to_little_endian(number)),
     transactions |-> transactions]

read_current_block_number(st) ==
    LET r == store_read_slice(st, concat(EVM_CURRENT_BLOCK, BLOCKS_NUMBER),
                              CURRENT_BLOCK_NUMBER_SIZE, CURRENT_BLOCK_NUMBER_SIZE)
    IN  IF ~r.ok THEN r ELSE Ok(st, u256_from_little_endian(r.val))

\* chunks(TRANSACTION_HASH_SIZE) with the chunks of another length dropped.
RECURSIVE hash_chunks(_)
hash_chunks(bytes) ==
    IF Len(bytes) < TRANSACTION_HASH_SIZE THEN <<>>
    ELSE <<SubSeq(bytes, 1, TRANSACTION_HASH_SIZE)>>
            \o hash_chunks(SubSeq(bytes, TRANSACTION_HASH_SIZE + 1, Len(bytes)))

read_nth_block_transactions(st, path) ==
    LET r == store_read_empty_safe(st, concat(path, BLOCKS_TRANSACTIONS), 0,
                                   MAX_TRANSACTION_HASHES)
    IN  IF ~r.ok THEN r ELSE Ok(st, hash_chunks(r.val))

read_current_block_nodebug(st) ==
    LET number == read_current_block_number(st)
    IN  IF ~number.ok THEN number
        ELSE LET transactions ==
                     read_nth_block_transactions(st, block_path(number.val))
             IN  IF ~transactions.ok THEN transactions
                 ELSE Ok(st, L2Block_new(number.val, transactions.val))

read_current_block(st) == read_current_block_nodebug(st)

store_block_number(st, path, block_number) ==
    host_store_write(st, concat(path, BLOCKS_NUMBER),
                     u256_to_little_endian(block_number), 0)

store_block_hash(st, path, block_hash) ==
    host_store_write(st, concat(path, BLOCKS_HASH), block_hash, 0)

\* [TransactionHash]::concat
RECURSIVE concat_hashes(_)
concat_hashes(hashes) ==
    IF hashes = <<>> THEN <<>> ELSE Head(hashes) \o concat_hashes(Tail(hashes))

store_block_transactions(st, path, block_transactions) ==
    host_store_write(st, concat(path, BLOCKS_TRANSACTIONS),
                     concat_hashes(block_transactions), 0)

\* store_block that goes on with the next field after a write failed.
store_block_continue(st, block, path) ==
    LET n == store_block_number(st, path, block.number)
        h == store_block_hash(n.st, path, block.hash)
    IN  store_block_transactions(h.st, path, block.transactions)

store_block(st, block, path) ==
    LET n == store_block_number(st, path, block.number)
    IN  IF ~n.ok THEN n
        ELSE LET h == store_block_hash(n.st, path, block.hash)
             IN  IF ~h.ok THEN h
                 ELSE store_block_transactions(h.st, path, block.transactions)

store_block_by_number(st, block) ==
    store_block(st, block, block_path(block.number))

\* store_current_block_nodebug that stores the whole block under the pointer.
store_current_block_whole(st, block) ==
    LET full == store_block(st, block, EVM_CURRENT_BLOCK)
    IN  IF ~full.ok THEN full ELSE store_block_by_number(full.st, block)

store_current_block_nodebug(st, block) ==
    LET n == store_block_number(st, EVM_CURRENT_BLOCK, block.number)
    IN  IF ~n.ok THEN n ELSE store_block_by_number(n.st, block)

store_current_block(st, block) == store_current_block_nodebug(st, block)

(***************************************************************************)
(* Transaction objects.                                                    *)
(***************************************************************************)
write_u256(st, path, value) ==
    host_store_write(st, path, u256_to_little_endian(value), 0)

\* store_write_all (evm_execution::account_storage): the value is written as
\* one value of the store, MAX_FILE_CHUNK_SIZE bytes per host write.
RECURSIVE store_write_all_from(_, _, _, _)
store_write_all_from(st, path, value, offset) ==
    IF offset >= Len(value) THEN Ok(st, <<>>)
    ELSE LET w == host_store_write(st, path,
                      SubSeq(value, offset + 1,
                             Min(Len(value), offset + MAX_FILE_CHUNK_SIZE)),
                      offset)
         IN  IF ~w.ok THEN w
             ELSE store_write_all_from(w.st, path, value,
                                       offset + MAX_FILE_CHUNK_SIZE)

store_write_all(st, path, value) == store_write_all_from(st, path, value, 0)

\* The width of TransactionObject.index (index.to_le_bytes()).
TRANSACTION_INDEX_SIZE == 2

\* The steps of store_transaction_object from step `from` on, each a host
\* write of one field; the first that fails ends the call.
RECURSIVE store_transaction_object_steps(_, _, _, _, _, _)
store_transaction_object_steps(st, path, block_hash, block_number, object, from) ==
    LET w == CASE from = 1 ->
                    host_store_write(st,
                        concat(path, TRANSACTION_OBJECT_BLOCK_HASH), block_hash, 0)
               [] from = 2 ->
                    write_u256(st, concat(path, TRANSACTION_OBJECT_BLOCK_NUMBER),
                               block_number)
               [] from = 3 ->
                    host_store_write(st, concat(path, TRANSACTION_OBJECT_FROM),
                                     object.from, 0)
               [] from = 4 ->
                    write_u256(st, concat(path, TRANSACTION_OBJECT_GAS_USED),
                               object.gas_used)
               [] from = 5 ->
                    write_u256(st, concat(path, TRANSACTION_OBJECT_GAS_PRICE),
                               object.gas_price)
               [] from = 6 ->
                    store_write_all(st, concat(path, TRANSACTION_OBJECT_INPUT),
                                    object.input)
               [] from = 7 ->
                    write_u256(st, concat(path, TRANSACTION_OBJECT_NONCE),
                               object.nonce)
               [] from = 8 ->
                    IF object.to.some
                    THEN host_store_write(st, concat(path, TRANSACTION_OBJECT_TO),
                                          object.to.data, 0)
                    ELSE Ok(st, <<>>)
               [] from = 9 ->
                    host_store_write(st, concat(path, TRANSACTION_OBJECT_INDEX),
                        to_le_bytes(object.index, TRANSACTION_INDEX_SIZE), 0)
               [] from = 10 ->
                    write_u256(st, concat(path, TRANSACTION_OBJECT_VALUE),
                               object.value)
               [] from = 11 ->
                    write_u256(st, concat(path, TRANSACTION_OBJECT_V), object.v)
               [] from = 12 ->
                    host_store_write(st, concat(path, TRANSACTION_OBJECT_R),
                                     object.r, 0)
               [] OTHER ->
                    host_store_write(st, concat(path, TRANSACTION_OBJECT_S),
                                     object.s, 0)
    IN  IF ~w.ok THEN w
        ELSE IF from >= 13 THEN Ok(w.st, <<>>)
        ELSE store_transaction_object_steps(w.st, path, block_hash,
                 block_number, object, from + 1)

store_transaction_object(st, path, block_hash, block_number, object) ==
    store_transaction_object_steps(st, path, block_hash, block_number, object, 1)

(***************************************************************************)
(* Chunked transactions.                                                   *)
(***************************************************************************)
\* is_transaction_complete that asks for more children than the expected
\* count.
is_transaction_complete_strict(st, path, num_chunks) ==
    LET n == host_store_count_subkeys(st, path)
    IN  IF ~n.ok THEN n
        ELSE Ok(st, (n.val % U16_MODULUS) > num_chunks)

is_transaction_complete(st, path, num_chunks) ==
    LET n == host_store_count_subkeys(st, path)
    IN  IF ~n.ok THEN n
        ELSE Ok(st, (n.val % U16_MODULUS) >= num_chunks)

\* chunked_transaction_num_chunks_by_path with a failed read taken as the
\* largest count instead of an error.
chunked_transaction_num_chunks_or_max(st, path) ==
    LET r == store_read_slice(st, chunked_transaction_num_chunks_path(path),
                              NUM_CHUNKS_SIZE, NUM_CHUNKS_SIZE)
    IN  IF ~r.ok THEN Ok(st, U16_MODULUS - 1) ELSE Ok(st, from_le_bytes(r.val))

chunked_transaction_num_chunks_by_path(st, path) ==
    LET r == store_read_slice(st, chunked_transaction_num_chunks_path(path),
                              NUM_CHUNKS_SIZE, NUM_CHUNKS_SIZE)
    IN  IF ~r.ok THEN r ELSE Ok(st, from_le_bytes(r.val))

chunked_transaction_num_chunks(st, tx_hash) ==
    chunked_transaction_num_chunks_by_path(st, chunked_transaction_path(tx_hash))

\* store_transaction_chunk_data without the check that the chunk is already
\* stored.
store_transaction_chunk_data_overwrite(st, path, data) ==
    IF Len(data) > MAX_FILE_CHUNK_SIZE
    THEN LET w1 == host_store_write(st, path,
                       SubSeq(data, 1, MAX_FILE_CHUNK_SIZE), 0)
         IN  IF ~w1.ok THEN w1
             ELSE host_store_write(w1.st, path,
                       SubSeq(data, MAX_FILE_CHUNK_SIZE + 1, Len(data)),
                       MAX_FILE_CHUNK_SIZE)
    ELSE host_store_write(st, path, data, 0)

store_transaction_chunk_data(st, path, data) ==
    IF host_store_has(st.store, path) \in {"Value", "ValueWithSubtree"}
    THEN Ok(st, <<>>)
    ELSE IF Len(data) > MAX_FILE_CHUNK_SIZE
    THEN LET w1 == host_store_write(st, path,
                       SubSeq(data, 1, MAX_FILE_CHUNK_SIZE), 0)
         IN  IF ~w1.ok THEN w1
             ELSE host_store_write(w1.st, path,
                       SubSeq(data, MAX_FILE_CHUNK_SIZE + 1, Len(data)),
                       MAX_FILE_CHUNK_SIZE)
    ELSE host_store_write(st, path, data, 0)

\* read_transaction_chunk_data with a single read, whatever the size.
read_transaction_chunk_data_once(st, path) ==
    LET size == host_store_value_size(st, path)
    IN  IF ~size.ok THEN size
        ELSE host_store_read(st, path, 0, MAX_FILE_CHUNK_SIZE)

read_transaction_chunk_data(st, path) ==
    LET size == host_store_value_size(st, path)
    IN  IF ~size.ok THEN size
        ELSE IF size.val > MAX_FILE_CHUNK_SIZE
        THEN LET data1 == host_store_read(st, path, 0, MAX_FILE_CHUNK_SIZE)
                 data2 == host_store_read(st, path, MAX_FILE_CHUNK_SIZE,
                                          MAX_FILE_CHUNK_SIZE)
             IN  IF ~data1.ok THEN data1
                 ELSE IF ~data2.ok THEN data2
                 ELSE Ok(st, data1.val \o data2.val)
        ELSE host_store_read(st, path, 0, MAX_FILE_CHUNK_SIZE)

\* The loop `for i in from..num_chunks` of get_full_transaction, `buffer`
\* being what the earlier iterations appended.
RECURSIVE get_full_transaction_loop(_, _, _, _, _, _)
get_full_transaction_loop(st, path, i, num_chunks, missing_data, buffer) ==
    IF i >= num_chunks THEN Ok(st, buffer)
    ELSE LET chunk == transaction_chunk_path(path, i)
         IN  IF host_store_has(st.store, chunk) = "None"
             THEN get_full_transaction_loop(st, path, i + 1, num_chunks,
                      missing_data, buffer \o missing_data)
             ELSE LET data == read_transaction_chunk_data(st, chunk)
                  IN  IF ~data.ok THEN data
                      ELSE get_full_transaction_loop(st, path, i + 1,
                               num_chunks, missing_data, buffer \o data.val)

\* get_full_transaction that appends the payload of the call after the
\* stored chunks.
get_full_transaction_missing_last(st, path, num_chunks, missing_data) ==
    LET stored == get_full_transaction_loop(st, path, 0, num_chunks, <<>>, <<>>)
    IN  IF ~stored.ok THEN stored ELSE Ok(st, stored.val \o missing_data)

\* get_full_transaction with a loop that starts at chunk 1.
get_full_transaction_from_one(st, path, num_chunks, missing_data) ==
    get_full_transaction_loop(st, path, 1, num_chunks, missing_data, <<>>)

get_full_transaction(st, path, num_chunks, missing_data) ==
    get_full_transaction_loop(st, path, 0, num_chunks, missing_data, <<>>)

\* remove_chunked_transaction_by_path that deletes the metadata child only.
remove_chunked_transaction_metadata(st, path) ==
    host_store_delete(st, chunked_transaction_num_chunks_path(path))

remove_chunked_transaction_by_path(st, path) == host_store_delete(st, path)

\* remove_chunked_transaction that deletes the root of all the chunked
\* transactions.
remove_chunked_transaction_root(st, tx_hash) ==
    remove_chunked_transaction_by_path(st, CHUNKED_TRANSACTIONS)

remove_chunked_transaction(st, tx_hash) ==
    remove_chunked_transaction_by_path(st, chunked_transaction_path(tx_hash))

\* Option<Vec<u8>>
None == [some |-> FALSE, data |-> <<>>]
Some(data) == [some |-> TRUE, data |-> data]

\* store_transaction_chunk without the deletion of the subtree of a completed
\* transaction.
store_transaction_chunk_keep(st, tx_hash, i, data) ==
    LET path == chunked_transaction_path(tx_hash)
        num_chunks == chunked_transaction_num_chunks_by_path(st, path)
    IN  IF ~num_chunks.ok THEN num_chunks
        ELSE LET complete == is_transaction_complete(st, path, num_chunks.val)
             IN  IF ~complete.ok THEN complete
                 ELSE IF complete.val
                 THEN LET full == get_full_transaction(st, path,
                                      num_chunks.val, data)
                      IN  IF ~full.ok THEN full
                          ELSE Ok(st, Some(full.val))
                 ELSE LET w == store_transaction_chunk_data(st,
                                   transaction_chunk_path(path, i), data)
                      IN  IF ~w.ok THEN w ELSE Ok(w.st, None)

\* store_transaction_chunk that stores the fragment of the completing call
\* too, before it reads the transaction back.
store_transaction_chunk_persist_last(st, tx_hash, i, data) ==
    LET path == chunked_transaction_path(tx_hash)
        num_chunks == chunked_transaction_num_chunks_by_path(st, path)
    IN  IF ~num_chunks.ok THEN num_chunks
        ELSE LET complete == is_transaction_complete(st, path, num_chunks.val)
                 w == store_transaction_chunk_data(st,
                          transaction_chunk_path(path, i), data)
             IN  IF ~complete.ok THEN complete
                 ELSE IF ~w.ok THEN w
                 ELSE IF complete.val
                 THEN LET full == get_full_transaction(w.st, path,
                                      num_chunks.val, data)
                      IN  IF ~full.ok THEN full
                          ELSE LET del == host_store_delete(w.st, path)
                               IN  IF ~del.ok THEN del
                                   ELSE Ok(del.st, Some(full.val))
                 ELSE Ok(w.st, None)

store_transaction_chunk(st, tx_hash, i, data) ==
    LET path == chunked_transaction_path(tx_hash)
        num_chunks == chunked_transaction_num_chunks_by_path(st, path)
    IN  IF ~num_chunks.ok THEN num_chunks
        ELSE LET complete == is_transaction_complete(st, path, num_chunks.val)
             IN  IF ~complete.ok THEN complete
                 ELSE IF complete.val
                 THEN LET full == get_full_transaction(st, path,
                                      num_chunks.val, data)
                      IN  IF ~full.ok THEN full
                          ELSE LET del == host_store_delete(st, path)
                               IN  IF ~del.ok THEN del
                                   ELSE Ok(del.st, Some(full.val))
                 ELSE LET w == store_transaction_chunk_data(st,
                                   transaction_chunk_path(path, i), data)
                      IN  IF ~w.ok THEN w ELSE Ok(w.st, None)

\* create_chunked_transaction that clears the subtree of a transaction that
\* exists before it writes the metadata.
create_chunked_transaction_reset(st, tx_hash, num_chunks) ==
    LET path == chunked_transaction_path(tx_hash)
        cleared == IF host_store_has(st.store, path) = "None" THEN Ok(st, <<>>)
                   ELSE host_store_delete(st, path)
    IN  IF ~cleared.ok THEN cleared
        ELSE host_store_write(cleared.st,
                 chunked_transaction_num_chunks_path(path),
                 to_le_bytes(num_chunks, NUM_CHUNKS_SIZE), 0)

create_chunked_transaction(st, tx_hash, num_chunks) ==
    host_store_write(st,
        chunked_transaction_num_chunks_path(chunked_transaction_path(tx_hash)),
        to_le_bytes(num_chunks, NUM_CHUNKS_SIZE), 0)

(***************************************************************************)
(* Inputs of the chunked-transaction operations.                           *)
(***************************************************************************)
MaxChunks == 3

\* The hash whose reassembly Spec follows.
ChunkedHashes == {TxHash(16)}

\* Fragment payloads: exactly the store's cap, one byte more than the cap,
\* twice the cap (the largest payload an input carries).
Payload(len, seed) == [j \in 1..len |-> (seed + 7 * j) % 256]
PayloadList == <<Payload(MAX_FILE_CHUNK_SIZE, 1),
                 Payload(MAX_FILE_CHUNK_SIZE + 1, 2),
                 Payload(2 * MAX_FILE_CHUNK_SIZE, 3)>>
Payloads == {PayloadList[j] : j \in 1..Len(PayloadList)}

\* The payload that fragment i of a transaction carries under assignment k.
Fragment(k, i) == PayloadList[((i + k) % Len(PayloadList)) + 1]

RECURSIVE ConcatFragments(_, _, _)
ConcatFragments(k, i, n) ==
    IF i >= n THEN <<>> ELSE Fragment(k, i) \o ConcatFragments(k, i + 1, n)

(***************************************************************************)
(* History of a chunked transaction, kept per hash: what its callers did   *)
(* since it was created.                                                   *)
(*   created   0: never created (or removed), 1: created once while its    *)
(*             subtree was absent, 2: created again over an existing one   *)
(*   n         the expected count given to the last creation (kept after   *)
(*             a removal)                                                  *)
(*   k         the assignment of payloads to indices chosen at creation    *)
(*   faithful  every fragment delivered so far had an index in [0, n) and  *)
(*             carried Fragment(k, index)                                  *)
(*   inorder   j when the deliveries so far were exactly the indices       *)
(*             0, 1, .., j-1 in this order, each once; -1 otherwise        *)
(*   acc       the payloads of these in-order deliveries, concatenated     *)
(*   returned  how many deliveries returned a payload (2: two or more)     *)
(*   perm      the set of the indices delivered so far, when each was in   *)
(*             [0, n), was delivered once and carried Fragment(k, index);  *)
(*             NotPerm otherwise                                           *)
(***************************************************************************)
NotPerm == {-1}

NoHistory == [created |-> 0, n |-> 0, k |-> 0, faithful |-> TRUE,
              inorder |-> 0, acc |-> <<>>, returned |-> 0, perm |-> {}]

Created(g, fresh, n, k) ==
    IF fresh
    THEN [created |-> 1, n |-> n, k |-> k, faithful |-> TRUE,
          inorder |-> 0, acc |-> <<>>, returned |-> 0, perm |-> {}]
    ELSE [created |-> 2, n |-> n, k |-> 0, faithful |-> FALSE,
          inorder |-> -1, acc |-> <<>>, returned |-> 0, perm |-> NotPerm]

Delivered(g, i, data, r) ==
    IF g.created = 0 THEN g
    ELSE LET ord == g.inorder >= 0 /\ i = g.inorder /\ i < g.n
         IN  [g EXCEPT
                !.faithful = g.faithful /\ i < g.n /\ data = Fragment(g.k, i),
                !.k = IF g.faithful /\ i < g.n /\ data = Fragment(g.k, i)
                      THEN g.k ELSE 0,
                !.inorder = IF ord THEN g.inorder + 1 ELSE -1,
                !.acc = IF ord THEN g.acc \o data ELSE <<>>,
                !.returned = IF r.ok /\ r.val.some
                             THEN Min(g.returned + 1, 2) ELSE g.returned,
                !.perm = IF /\ g.perm # NotPerm
                            /\ i < g.n
                            /\ i \notin g.perm
                            /\ data = Fragment(g.k, i)
                         THEN g.perm \cup {i} ELSE NotPerm]

(***************************************************************************)
(* The calls.                                                              *)
(***************************************************************************)
NoBlock == [number |-> U256(0, 0), hash |-> <<>>, transactions |-> <<>>]

\* TransactionObject (tezos_ethereum::transaction): the fields that
\* store_transaction_object writes.
TransactionObject(from, gas_used, gas_price, input, nonce, to, index, value, v, r, s) ==
    [from |-> from, gas_used |-> gas_used, gas_price |-> gas_price,
     input |-> input, nonce |-> nonce, to |-> to, index |-> index,
     value |-> value, v |-> v, r |-> r, s |-> s]

NoObject == TransactionObject(<<>>, U256(0, 0), U256(0, 0), <<>>, U256(0, 0),
                [some |-> FALSE, data |-> <<>>], 0, U256(0, 0), U256(0, 0),
                <<>>, <<>>)

\* A call: its operation, its arguments, and the write that the host fails
\* during it (fault: how many host writes it performs first).
FaultCall(op, hash, i, data, block, object, fault) ==
    [op |-> op, hash |-> hash, i |-> i, data |-> data, block |-> block,
     object |-> object, fault |-> fault]

Call(op, hash, i, data) ==
    FaultCall(op, hash, i, data, NoBlock, NoObject, NoFault)

BlockCall(op, block) ==
    FaultCall(op, <<>>, 0, <<>>, block, NoObject, NoFault)

Returned(r) == [ok |-> r.ok, err |-> r.err, val |-> r.val]

\* The host state at the start of a call: the host fails none of its writes
\* (Enter), or fails the one that comes after `fault` performed ones.
EnterWith(fault) == [store |-> store, log |-> <<>>, fuel |-> fault]
Enter == EnterWith(NoFault)

Init ==
    /\ store = EmptyStore
    /\ pre = EmptyStore
    /\ log = <<>>
    /\ call = Call("init", <<>>, 0, <<>>)
    /\ ret = [ok |-> TRUE, err |-> NoError, val |-> <<>>]
    /\ ghost = [h \in TxHashes |-> NoHistory]

CreateChunkedTransaction(h, n, k) ==
    LET r == create_chunked_transaction(Enter, h, n)
        fresh == host_store_has(store, chunked_transaction_path(h)) = "None"
    IN  /\ fresh \/ k = 0
        /\ store' = r.st.store
        /\ log' = r.st.log
        /\ pre' = store
        /\ call' = Call("create_chunked_transaction", h, n, <<>>)
        /\ ret' = Returned(r)
        /\ ghost' = [ghost EXCEPT ![h] = IF r.ok THEN Created(@, fresh, n, k) ELSE @]

StoreTransactionChunk(h, i, data) ==
    LET r == store_transaction_chunk(Enter, h, i, data)
    IN  /\ store' = r.st.store
        /\ log' = r.st.log
        /\ pre' = store
        /\ call' = Call("store_transaction_chunk", h, i, data)
        /\ ret' = Returned(r)
        /\ ghost' = [ghost EXCEPT ![h] = Delivered(@, i, data, r)]

RemoveChunkedTransaction(h) ==
    LET r == remove_chunked_transaction(Enter, h)
    IN  /\ store' = r.st.store
        /\ log' = r.st.log
        /\ pre' = store
        /\ call' = Call("remove_chunked_transaction", h, 0, <<>>)
        /\ ret' = Returned(r)
        /\ ghost' = [ghost EXCEPT ![h] = IF r.ok THEN [NoHistory EXCEPT !.n = ghost[h].n]
                                         ELSE @]

ChunkedTransactionNumChunks(h) ==
    LET r == chunked_transaction_num_chunks(Enter, h)
    IN  /\ store' = r.st.store
        /\ log' = r.st.log
        /\ pre' = store
        /\ call' = Call("chunked_transaction_num_chunks", h, 0, <<>>)
        /\ ret' = Returned(r)
        /\ UNCHANGED ghost

Next ==
    \/ \E h \in ChunkedHashes, n \in 0..MaxChunks,
          k \in 0..(Len(PayloadList) - 1) :
          CreateChunkedTransaction(h, n, k)
    \/ \E h \in ChunkedHashes, i \in 0..MaxChunks, data \in Payloads :
          StoreTransactionChunk(h, i, data)
    \/ \E h \in ChunkedHashes : RemoveChunkedTransaction(h)
    \/ \E h \in ChunkedHashes : ChunkedTransactionNumChunks(h)

Spec == Init /\ [][Next]_vars

(***************************************************************************)
(* Properties of the chunked-transaction reassembly.                       *)
(***************************************************************************)
IsChunkCall(h) == call.op = "store_transaction_chunk" /\ call.hash = h

NumChunksPath(h) == chunked_transaction_num_chunks_path(chunked_transaction_path(h))
ChunkPath(h, i) == transaction_chunk_path(chunked_transaction_path(h), i)

SubtreeAbsent(s, h) == host_store_has(s, chunked_transaction_path(h)) = "None"

\* The direct children of the subtree of h in store s.
Children(s, h) ==
    {q[Len(chunked_transaction_path(h)) + 1] :
        q \in {q \in DOMAIN s : Len(q) > Len(chunked_transaction_path(h))
                                /\ IsPrefix(chunked_transaction_path(h), q)}}

\* The transaction of h has its metadata in store s and is not complete.
Incomplete(s, h) ==
    /\ NumChunksPath(h) \in DOMAIN s
    /\ Len(s[NumChunksPath(h)]) = NUM_CHUNKS_SIZE
    /\ Cardinality(Children(s, h)) < from_le_bytes(s[NumChunksPath(h)])

WriteEvent(p, offset, bytes) ==
    [op |-> "write", path |-> p, offset |-> offset, bytes |-> bytes]
DeleteEvent(p) == [op |-> "delete", path |-> p, offset |-> 0, bytes |-> <<>>]

\* C1: when a transaction was created once with expected count N >= 1 and
\* the fragments 0 .. N-1 were submitted in this order, each once, the call
\* that submits fragment N-1 returns the concatenation of the N payloads in
\* index order, and after it the subtree of the hash is absent.
C1_InOrderReassembly ==
    \A h \in ChunkedHashes :
        (/\ IsChunkCall(h)
         /\ ghost[h].created = 1
         /\ ghost[h].n >= 1
         /\ ghost[h].inorder = ghost[h].n)
        => /\ ret.ok
           /\ ret.val.some
           /\ ret.val.data = ghost[h].acc
           /\ SubtreeAbsent(store, h)

C1_Witness ==
    \E h \in ChunkedHashes :
        /\ IsChunkCall(h)
        /\ ghost[h].created = 1
        /\ ghost[h].n = MaxChunks
        /\ ghost[h].inorder = ghost[h].n
        /\ call.i = MaxChunks - 1
        /\ Len(ghost[h].acc) > 2 * MAX_FILE_CHUNK_SIZE

\* C2: for a transaction created once with expected count N, when every
\* call carries an index in [0, N) and index i always carries the same
\* payload p_i, every call that returns a payload returns
\* p_0 \o .. \o p_(N-1), whatever was redelivered before.
C2_RedeliveryNeverCorrupts ==
    \A h \in ChunkedHashes :
        (/\ IsChunkCall(h)
         /\ ghost[h].created = 1
         /\ ghost[h].faithful
         /\ ret.ok
         /\ ret.val.some)
        => ret.val.data = ConcatFragments(ghost[h].k, 0, ghost[h].n)

\* C3: a call for a transaction that is not complete, with an index whose
\* chunk already holds a value, returns not-yet-complete without an error and
\* leaves the store as it was, whatever payload it carries.
C3_IdempotentFragment ==
    \A h \in ChunkedHashes :
        (/\ IsChunkCall(h)
         /\ Incomplete(pre, h)
         /\ ChunkPath(h, call.i) \in DOMAIN pre)
        => /\ ret.ok
           /\ ~ret.val.some
           /\ log = <<>>
           /\ store = pre

C3_Witness ==
    \E h \in ChunkedHashes :
        /\ IsChunkCall(h)
        /\ Incomplete(pre, h)
        /\ ChunkPath(h, call.i) \in DOMAIN pre
        /\ pre[ChunkPath(h, call.i)] # call.data
        /\ store[ChunkPath(h, call.i)] = pre[ChunkPath(h, call.i)]

\* C4: a call for a hash whose num_chunks child is absent returns an error,
\* writes nothing and leaves the store as it was.
C4_NoMetadataNoFragment ==
    \A h \in ChunkedHashes :
        (IsChunkCall(h) /\ NumChunksPath(h) \notin DOMAIN pre)
        => /\ ~ret.ok
           /\ log = <<>>
           /\ store = pre

\* the transaction was completed before, and a fragment comes after it
C4_Witness ==
    \E h \in ChunkedHashes :
        /\ IsChunkCall(h)
        /\ NumChunksPath(h) \notin DOMAIN pre
        /\ ghost[h].created = 1
        /\ ghost[h].returned = 1
        /\ ~ret.ok

\* C5: the call that returns a payload for a hash deletes the whole subtree
\* of the hash in that call, and between two creations of a transaction at
\* most one call returns a payload.
C5_CollectedOnce ==
    \A h \in ChunkedHashes :
        /\ (IsChunkCall(h) /\ ret.ok /\ ret.val.some)
           => /\ SubtreeAbsent(store, h)
              /\ log = <<DeleteEvent(chunked_transaction_path(h))>>
        /\ ghost[h].returned <= 1

\* a fragment is delivered after the call that returned the payload, with no
\* creation in between
C5_Witness ==
    \E h \in ChunkedHashes :
        /\ IsChunkCall(h)
        /\ ghost[h].returned = 1
        /\ ghost[h].n >= 2
        /\ SubtreeAbsent(pre, h)
        /\ ~ret.ok

\* C9: a payload longer than the cap (and at most twice the cap) is stored
\* with two writes, its bytes [0, cap) at offset 0 and the rest at offset
\* cap; a payload of at most cap bytes is stored with one write; in both
\* cases read_transaction_chunk_data returns the payload.
C9_OversizedRoundTrip ==
    \A h \in ChunkedHashes :
        (/\ IsChunkCall(h)
         /\ Incomplete(pre, h)
         /\ ChunkPath(h, call.i) \notin DOMAIN pre
         /\ Len(call.data) <= 2 * MAX_FILE_CHUNK_SIZE)
        => LET p == ChunkPath(h, call.i)
               back == read_transaction_chunk_data(Enter, p)
           IN  /\ ret.ok
               /\ log = IF Len(call.data) > MAX_FILE_CHUNK_SIZE
                        THEN <<WriteEvent(p, 0, SubSeq(call.data, 1, MAX_FILE_CHUNK_SIZE)),
                               WriteEvent(p, MAX_FILE_CHUNK_SIZE,
                                   SubSeq(call.data, MAX_FILE_CHUNK_SIZE + 1,
                                          Len(call.data)))>>
                        ELSE <<WriteEvent(p, 0, call.data)>>
               /\ back.ok
               /\ back.val = call.data

C9_Witness ==
    \E h \in ChunkedHashes :
        /\ IsChunkCall(h)
        /\ Incomplete(pre, h)
        /\ ChunkPath(h, call.i) \notin DOMAIN pre
        /\ Len(call.data) = 2 * MAX_FILE_CHUNK_SIZE
        /\ Len(log) = 2
        /\ store[ChunkPath(h, call.i)] = call.data

(***************************************************************************)
(* Blocks: inputs, calls and the specification SpecBlock.                  *)
(***************************************************************************)
\* Block numbers: 1 and 2^64 + 1.
BlockNumbers == {U256(1, 0), U256(1, 1)}

\* Transaction lists: none, one, two (as many bytes as one write takes) and
\* three hashes (more than one write takes).
TransactionLists ==
    {<<>>, <<TxHash(16)>>, <<TxHash(170), TxHash(16)>>,
     <<TxHash(16), TxHash(170), TxHash(16)>>}

Blocks == {L2Block_new(n, t) : n \in BlockNumbers, t \in TransactionLists}

StoreCurrentBlock(b) ==
    LET r == store_current_block(Enter, b)
    IN  /\ store' = r.st.store
        /\ log' = r.st.log
        /\ pre' = store
        /\ call' = BlockCall("store_current_block", b)
        /\ ret' = Returned(r)
        /\ UNCHANGED ghost

StoreBlockByNumber(b) ==
    LET r == store_block_by_number(Enter, b)
    IN  /\ store' = r.st.store
        /\ log' = r.st.log
        /\ pre' = store
        /\ call' = BlockCall("store_block_by_number", b)
        /\ ret' = Returned(r)
        /\ UNCHANGED ghost

ReadCurrentBlockNumber ==
    LET r == read_current_block_number(Enter)
    IN  /\ store' = r.st.store
        /\ log' = r.st.log
        /\ pre' = store
        /\ call' = BlockCall("read_current_block_number", NoBlock)
        /\ ret' = Returned(r)
        /\ UNCHANGED ghost

ReadCurrentBlock ==
    LET r == read_current_block(Enter)
    IN  /\ store' = r.st.store
        /\ log' = r.st.log
        /\ pre' = store
        /\ call' = BlockCall("read_current_block", NoBlock)
        /\ ret' = Returned(r)
        /\ UNCHANGED ghost

NextBlock ==
    \/ \E b \in Blocks : StoreCurrentBlock(b)
    \/ \E b \in Blocks : StoreBlockByNumber(b)
    \/ ReadCurrentBlockNumber
    \/ ReadCurrentBlock

SpecBlock == Init /\ [][NextBlock]_vars

(***************************************************************************)
(* Properties of the block storage.                                        *)
(***************************************************************************)
IsStoreCurrentBlock == call.op = "store_current_block"

\* The 32 little-endian bytes and the decimal digits of the block numbers
\* of the model, written out.
ExpectedLittleEndian(u) ==
    [j \in 1..WORD_SIZE |-> IF j = 1 THEN u[1] ELSE IF j = 9 THEN u[2] ELSE 0]
ExpectedDecimal(u) ==
    IF u = U256(1, 0) THEN "1"
    ELSE IF u = U256(1, 1) THEN "18446744073709551617"
    ELSE "?"

\* The host calls of store_current_block(b), in order.
ExpectedBlockWrites(b) ==
    LET numbered == <<"evm", "blocks", ExpectedDecimal(b.number)>>
    IN  <<WriteEvent(<<"evm", "blocks", "current", "number">>, 0,
                     ExpectedLittleEndian(b.number)),
          WriteEvent(numbered \o <<"number">>, 0, ExpectedLittleEndian(b.number)),
          WriteEvent(numbered \o <<"hash">>, 0, b.hash),
          WriteEvent(numbered \o <<"transactions">>, 0,
                     concat_hashes(b.transactions))>>

\* C6: after store_current_block(B) succeeds, read_current_block_number
\* returns B.number, for every 256-bit block number.
C6_PointerRoundTrip ==
    (IsStoreCurrentBlock /\ ret.ok)
    => LET r == read_current_block_number(Enter)
       IN  r.ok /\ r.val = call.block.number

\* C7: after store_current_block(B) succeeds, read_current_block returns a
\* block equal to B in number, hash and transaction list.
C7_BlockRoundTrip ==
    (IsStoreCurrentBlock /\ ret.ok)
    => LET r == read_current_block(Enter)
       IN  /\ r.ok
           /\ r.val.number = call.block.number
           /\ r.val.hash = call.block.hash
           /\ r.val.transactions = call.block.transactions

\* C8: store_current_block(B) writes the number of B under the pointer, then
\* number, hash and transactions of B under /evm/blocks/<decimal B.number>,
\* and nothing else: no hash or transactions child of /evm/blocks/current,
\* no other path (a call that fails wrote a prefix of these writes).
C8_CurrentBlockFrame ==
    IsStoreCurrentBlock
    => /\ ret.ok => log = ExpectedBlockWrites(call.block)
       /\ Len(log) <= 4
       /\ log = SubSeq(ExpectedBlockWrites(call.block), 1, Len(log))
       /\ \A p \in (DOMAIN store) \cup (DOMAIN pre) :
            (p \notin DOMAIN pre \/ p \notin DOMAIN store \/ store[p] # pre[p])
            => p \in {ExpectedBlockWrites(call.block)[j].path : j \in 1..4}
       /\ <<"evm", "blocks", "current", "hash">> \notin DOMAIN store
       /\ <<"evm", "blocks", "current", "transactions">> \notin DOMAIN store

C8_Witness ==
    /\ IsStoreCurrentBlock
    /\ ret.ok
    /\ call.block.number = U256(1, 1)
    /\ Len(call.block.transactions) = 2
    /\ Len(log) = 4
    /\ <<"evm", "blocks", "1", "hash">> \in DOMAIN pre

(***************************************************************************)
(* SpecMeta: the reads of the expected count when the num_chunks value in  *)
(* the store has any length.                                               *)
(***************************************************************************)
MaxMetaLen == 3

MetaValues == UNION {[1..len -> {0, 2}] : len \in 1..MaxMetaLen}

InitMeta ==
    /\ store \in {[p \in {NumChunksPath(h)} |-> v] :
                    h \in ChunkedHashes, v \in MetaValues}
    /\ pre = store
    /\ log = <<>>
    /\ call = Call("init", <<>>, 0, <<>>)
    /\ ret = [ok |-> TRUE, err |-> NoError, val |-> <<>>]
    /\ ghost = [h \in TxHashes |-> NoHistory]

NextMeta ==
    \/ \E h \in ChunkedHashes, i \in 0..MaxChunks, data \in Payloads :
          StoreTransactionChunk(h, i, data)
    \/ \E h \in ChunkedHashes : ChunkedTransactionNumChunks(h)

SpecMeta == InitMeta /\ [][NextMeta]_vars

\* C10: when the stored num_chunks value is not exactly 2 bytes long,
\* chunked_transaction_num_chunks and store_transaction_chunk fail with
\* InvalidLoadValue, expected = 2 and actual = the stored length.
C10_WrongLengthIsError ==
    \A h \in ChunkedHashes :
        (/\ call.op \in {"store_transaction_chunk", "chunked_transaction_num_chunks"}
         /\ call.hash = h
         /\ NumChunksPath(h) \in DOMAIN pre
         /\ Len(pre[NumChunksPath(h)]) # NUM_CHUNKS_SIZE)
        => /\ ~ret.ok
           /\ ret.err = InvalidLoadValue(NUM_CHUNKS_SIZE, Len(pre[NumChunksPath(h)]))

(***************************************************************************)
(* SpecFault: the multi-step writes of blocks and transaction objects when *)
(* the host fails one of its writes.                                       *)
(***************************************************************************)
\* Blocks: two numbers with one transaction each, and a block whose
\* transaction list is longer than one host write takes.
FaultBlocks ==
    {L2Block_new(U256(1, 0), <<TxHash(16)>>),
     L2Block_new(U256(1, 1), <<TxHash(170)>>),
     L2Block_new(U256(1, 0), <<TxHash(16), TxHash(170), TxHash(16)>>)}

Address(seed) == [j \in 1..ADDRESS_SIZE |-> (seed + j) % 256]

\* Transaction objects: a transfer with a short input, and a contract
\* creation (no recipient) with an input longer than one host write takes
\* and another signature.
Objects ==
    {TransactionObject(Address(1), U256(21, 0), U256(2, 0), Payload(3, 5),
                       U256(0, 1), [some |-> TRUE, data |-> Address(2)], 258,
                       U256(9, 0), U256(27, 0), TxHash(3), TxHash(4)),
     TransactionObject(Address(1), U256(21, 0), U256(2, 0),
                       Payload(MAX_FILE_CHUNK_SIZE + 1, 6),
                       U256(0, 1), [some |-> FALSE, data |-> <<>>], 258,
                       U256(9, 0), U256(27, 0), TxHash(3), TxHash(8))}

ObjectHashes == {TxHash(16)}

\* The host writes of store_block(b, path), in order.
ExpectedStoreBlock(b, path) ==
    <<WriteEvent(path \o <<"number">>, 0, ExpectedLittleEndian(b.number)),
      WriteEvent(path \o <<"hash">>, 0, b.hash),
      WriteEvent(path \o <<"transactions">>, 0, concat_hashes(b.transactions))>>

\* The host writes of store_transaction_object, in order.
ExpectedObjectWrites(path, block_hash, block_number, o) ==
    <<WriteEvent(path \o <<"block_hash">>, 0, block_hash),
      WriteEvent(path \o <<"block_number">>, 0, ExpectedLittleEndian(block_number)),
      WriteEvent(path \o <<"from">>, 0, o.from),
      WriteEvent(path \o <<"gas_used">>, 0, ExpectedLittleEndian(o.gas_used)),
      WriteEvent(path \o <<"gas_price">>, 0, ExpectedLittleEndian(o.gas_price))>>
    \o (IF Len(o.input) > MAX_FILE_CHUNK_SIZE
        THEN <<WriteEvent(path \o <<"input">>, 0,
                          SubSeq(o.input, 1, MAX_FILE_CHUNK_SIZE)),
               WriteEvent(path \o <<"input">>, MAX_FILE_CHUNK_SIZE,
                          SubSeq(o.input, MAX_FILE_CHUNK_SIZE + 1, Len(o.input)))>>
        ELSE <<WriteEvent(path \o <<"input">>, 0, o.input)>>)
    \o <<WriteEvent(path \o <<"nonce">>, 0, ExpectedLittleEndian(o.nonce))>>
    \o (IF o.to.some THEN <<WriteEvent(path \o <<"to">>, 0, o.to.data)>>
        ELSE <<>>)
    \o <<WriteEvent(path \o <<"index">>, 0, <<o.index % 256, o.index \div 256>>),
         WriteEvent(path \o <<"value">>, 0, ExpectedLittleEndian(o.value)),
         WriteEvent(path \o <<"v">>, 0, ExpectedLittleEndian(o.v)),
         WriteEvent(path \o <<"r">>, 0, o.r),
         WriteEvent(path \o <<"s">>, 0, o.s)>>

\* The host writes that a call of the three multi-step writers attempts.
ExpectedWrites(c) ==
    CASE c.op = "store_current_block" -> ExpectedBlockWrites(c.block)
      [] c.op = "store_block_by_number" ->
            ExpectedStoreBlock(c.block,
                <<"evm", "blocks", ExpectedDecimal(c.block.number)>>)
      [] c.op = "store_transaction_object" ->
            ExpectedObjectWrites(object_path(c.hash), c.block.hash,
                                 c.block.number, c.object)
      [] OTHER -> <<>>

StoreCurrentBlockFault(b, fault) ==
    LET r == store_current_block(EnterWith(fault), b)
    IN  /\ store' = r.st.store
        /\ log' = r.st.log
        /\ pre' = store
        /\ call' = FaultCall("store_current_block", <<>>, 0, <<>>, b, NoObject, fault)
        /\ ret' = Returned(r)
        /\ UNCHANGED ghost

StoreBlockByNumberFault(b, fault) ==
    LET r == store_block_by_number(EnterWith(fault), b)
    IN  /\ store' = r.st.store
        /\ log' = r.st.log
        /\ pre' = store
        /\ call' = FaultCall("store_block_by_number", <<>>, 0, <<>>, b, NoObject, fault)
        /\ ret' = Returned(r)
        /\ UNCHANGED ghost

\* store_transaction_object for the object o of hash h in block b, as
\* store_transaction_objects calls it.
StoreTransactionObjectFault(h, b, o, fault) ==
    LET r == store_transaction_object(EnterWith(fault), object_path(h),
                                      b.hash, b.number, o)
    IN  /\ store' = r.st.store
        /\ log' = r.st.log
        /\ pre' = store
        /\ call' = FaultCall("store_transaction_object", h, 0, <<>>, b, o, fault)
        /\ ret' = Returned(r)
        /\ UNCHANGED ghost

\* The host fails no write, or any one of the writes of the call.
Faults(writes) == NoFault..(Len(writes) - 1)

\* One behaviour of SpecFault stores blocks or stores transaction objects
\* (the two live under different roots of the store).
NoneUnder(root) == host_store_has(store, root) = "None"

NextFault ==
    \/ \E b \in FaultBlocks :
          \E fault \in Faults(ExpectedBlockWrites(b)) :
             NoneUnder(EVM_TRANSACTIONS_OBJECTS) /\ StoreCurrentBlockFault(b, fault)
    \/ \E b \in FaultBlocks :
          \E fault \in Faults(ExpectedStoreBlock(b, <<>>)) :
             NoneUnder(EVM_TRANSACTIONS_OBJECTS) /\ StoreBlockByNumberFault(b, fault)
    \/ \E h \in ObjectHashes, o \in Objects :
          \E fault \in Faults(ExpectedObjectWrites(<<>>, <<>>, U256(0, 0), o)) :
             /\ NoneUnder(EVM_BLOCKS)
             /\ StoreTransactionObjectFault(h, L2Block_new(U256(1, 0), <<h>>), o, fault)

SpecFault == Init /\ [][NextFault]_vars

\* The store s after the host writes of `writes` were performed in order.
RECURSIVE AfterWrites(_, _)
AfterWrites(s, writes) ==
    IF writes = <<>> THEN s
    ELSE LET w == Head(writes)
             old == IF w.path \in DOMAIN s THEN s[w.path] ELSE <<>>
         IN  AfterWrites([q \in DOMAIN s \cup {w.path} |->
                            IF q = w.path THEN WriteAt(old, w.offset, w.bytes)
                            ELSE s[q]],
                         Tail(writes))

IsMultiStepWrite ==
    call.op \in {"store_current_block", "store_block_by_number",
                 "store_transaction_object"}

\* C11: a call of store_current_block, store_block_by_number or
\* store_transaction_object performs its host writes in order up to the
\* first one that fails and none after it, returns the error of that write,
\* and rolls nothing back: the store is the store before the call with the
\* performed writes applied.  It succeeds exactly when every write did.
C11_AbortNoRollback ==
    IsMultiStepWrite
    => LET expected == ExpectedWrites(call)
       IN  /\ Len(log) <= Len(expected)
           /\ log = SubSeq(expected, 1, Len(log))
           /\ ret.ok <=> Len(log) = Len(expected)
           /\ store = AfterWrites(pre, log)
           /\ ~ret.ok =>
                /\ ret.err = IF call.fault = Len(log) THEN HostFailure
                             ELSE RuntimeError("StoreValueSizeExceeded")
                /\ call.fault = Len(log)
                   \/ Len(expected[Len(log) + 1].bytes) > MAX_FILE_CHUNK_SIZE

\* store_current_block fails on the first write of the numbered block: the
\* pointer names the new block, of which nothing was stored.
C11_Witness ==
    /\ call.op = "store_current_block"
    /\ call.fault = 1
    /\ ~ret.ok
    /\ Len(log) = 1
    /\ call.block.number = U256(1, 1)
    /\ <<"evm", "blocks", "current", "number">> \in DOMAIN pre
    /\ pre[<<"evm", "blocks", "current", "number">>] = ExpectedLittleEndian(U256(1, 0))
    /\ store[<<"evm", "blocks", "current", "number">>] = ExpectedLittleEndian(U256(1, 1))
    /\ <<"evm", "blocks", "18446744073709551617", "number">> \notin DOMAIN store

(***************************************************************************)
(* Further properties of the chunked-transaction reassembly (Spec).        *)
(***************************************************************************)
IsRemoveCall(h) == call.op = "remove_chunked_transaction" /\ call.hash = h

\* The paths of store s outside the subtree of h.
Outside(s, h) == {q \in DOMAIN s : ~IsPrefix(chunked_transaction_path(h), q)}

\* The children of the subtree of h in store s that are not the metadata
\* child: the stored fragments.
FragmentChildren(s, h) == Children(s, h) \ {"num_chunks"}

\* The expected count in the metadata of h in store s.
ExpectedCount(s, h) == from_le_bytes(s[NumChunksPath(h)])

\* C12: remove_chunked_transaction(H) on a subtree that exists, whatever it
\* holds, succeeds with one delete of the whole subtree: afterwards the
\* chunked path of H is absent and nothing else changed.  From then until H
\* is created again the subtree stays absent and every
\* store_transaction_chunk for H fails and stores nothing.
C12_RemoveDeletesSubtree ==
    \A h \in ChunkedHashes :
        /\ (IsRemoveCall(h) /\ ~SubtreeAbsent(pre, h))
           => /\ ret.ok
              /\ log = <<DeleteEvent(chunked_transaction_path(h))>>
              /\ SubtreeAbsent(store, h)
              /\ Outside(store, h) = Outside(pre, h)
              /\ \A q \in Outside(store, h) : store[q] = pre[q]
        /\ ghost[h].created = 0
           => /\ SubtreeAbsent(store, h)
              /\ IsChunkCall(h) => (~ret.ok /\ log = <<>> /\ store = pre)

\* a transaction one fragment short of complete is removed
C12_Witness ==
    \E h \in ChunkedHashes :
        /\ IsRemoveCall(h)
        /\ ret.ok
        /\ from_le_bytes(pre[NumChunksPath(h)]) = MaxChunks
        /\ Cardinality(Children(pre, h)) = MaxChunks
        /\ ghost[h].created = 0
        /\ SubtreeAbsent(store, h)

(***************************************************************************)
(* SpecPath: the derivation of paths from block numbers, transaction       *)
(* hashes and fragment indices.                                            *)
(***************************************************************************)
\* Block numbers: 0, 1, 9, 10, 11, 100, 2^64, 2^64 + 1, 10 * 2^64.
PathNumbers ==
    {U256(0, 0), U256(1, 0), U256(9, 0), U256(10, 0), U256(11, 0),
     U256(100, 0), U256(0, 1), U256(1, 1), U256(0, 10)}

\* Hashes that differ in one digit of one byte, at either end.
HashFrom(first, last) ==
    [j \in 1..TRANSACTION_HASH_SIZE |->
        IF j = 1 THEN first ELSE IF j = TRANSACTION_HASH_SIZE THEN last ELSE 0]
PathHashes ==
    {HashFrom(0, 0), HashFrom(1, 0), HashFrom(16, 0), HashFrom(17, 0),
     HashFrom(0, 1), HashFrom(0, 16), HashFrom(171, 205)}

\* Fragment indices, up to the largest 16-bit one.
PathIndices == {0, 1, 2, 9, 10, 11, 12, 21, 100, 101, 110, U16_MODULUS - 1}

\* The bytes of a path: its segments, each after a "/".
RECURSIVE PathBytes(_)
PathBytes(p) == IF p = <<>> THEN "" ELSE "/" \o Head(p) \o PathBytes(Tail(p))

\* The paths derived from one identifier of each kind.
DerivedPaths(number, hash, i) ==
    [block |-> PathBytes(block_path(number)),
     receipt |-> PathBytes(receipt_path(hash)),
     object |-> PathBytes(object_path(hash)),
     chunked |-> PathBytes(chunked_transaction_path(hash)),
     num_chunks |-> PathBytes(chunked_transaction_num_chunks_path(
                                  chunked_transaction_path(hash))),
     chunk |-> PathBytes(transaction_chunk_path(
                             chunked_transaction_path(hash), i))]

\* Two identifiers of one kind at a time, the others fixed.
PathInputs ==
    {[number |-> <<n1, n2>>, hash |-> <<HashFrom(0, 0), HashFrom(0, 0)>>,
      i |-> <<0, 0>>, paths |-> <<>>] : n1 \in PathNumbers, n2 \in PathNumbers}
    \cup
    {[number |-> <<U256(0, 0), U256(0, 0)>>, hash |-> <<h1, h2>>,
      i |-> <<0, 0>>, paths |-> <<>>] : h1 \in PathHashes, h2 \in PathHashes}
    \cup
    {[number |-> <<U256(0, 0), U256(0, 0)>>, hash |-> <<h, h>>,
      i |-> <<i1, i2>>, paths |-> <<>>] :
        h \in PathHashes, i1 \in PathIndices, i2 \in PathIndices}

InitPath ==
    /\ store = EmptyStore
    /\ pre = EmptyStore
    /\ log = <<>>
    /\ call = Call("path_inputs", <<>>, 0, <<>>)
    /\ ret \in {[ok |-> TRUE, err |-> NoError, val |-> v] : v \in PathInputs}
    /\ ghost = [h \in TxHashes |-> NoHistory]

\* The paths of the two identifiers of each kind are derived.
DerivePaths ==
    /\ call.op = "path_inputs"
    /\ call' = Call("derive_paths", <<>>, 0, <<>>)
    /\ ret' = [ret EXCEPT !.val.paths =
                  <<DerivedPaths(ret.val.number[1], ret.val.hash[1], ret.val.i[1]),
                    DerivedPaths(ret.val.number[2], ret.val.hash[2], ret.val.i[2])>>]
    /\ UNCHANGED <<store, pre, log, ghost>>

NextPath == DerivePaths

SpecPath == InitPath /\ [][NextPath]_vars

IsDerivePaths == call.op = "derive_paths"

\* C13: distinct block numbers have distinct block paths, and distinct
\* hashes distinct receipt, object and chunked paths; the paths of the four
\* namespaces differ from each other; no block path is the current-block
\* path or its number child; in one per-hash subtree the children of two
\* distinct indices differ, and no index child is the num_chunks child.
C13_PathsCollisionFree ==
    IsDerivePaths
    => LET v == ret.val
           a == v.paths[1]
           b == v.paths[2]
       IN  /\ v.number[1] # v.number[2] => a.block # b.block
           /\ v.hash[1] # v.hash[2]
              => /\ a.receipt # b.receipt
                 /\ a.object # b.object
                 /\ a.chunked # b.chunked
           /\ Cardinality({a.block, a.receipt, a.object, a.chunked}) = 4
           /\ a.block \notin {b.receipt, b.object, b.chunked}
           /\ a.receipt \notin {b.block, b.object, b.chunked}
           /\ a.object \notin {b.block, b.receipt, b.chunked}
           /\ a.chunked \notin {b.block, b.receipt, b.object}
           /\ a.block \notin {"/evm/blocks/current", "/evm/blocks/current/number"}
           /\ (v.hash[1] = v.hash[2] /\ v.i[1] # v.i[2]) => a.chunk # b.chunk
           /\ a.chunk # b.num_chunks
           /\ a.chunk # a.num_chunks

\* two hashes that differ in the high digit of their first byte only
C13_Witness ==
    /\ IsDerivePaths
    /\ ret.val.hash = <<HashFrom(1, 0), HashFrom(17, 0)>>
    /\ ret.val.paths[1].chunked # ret.val.paths[2].chunked
    /\ ret.val.paths[1].chunked =
          "/chunked_transactions/0100000000000000000000000000000000000000000000000000000000000000"

\* C14: when a transaction was created once with expected count N >= 1 and
\* distinct indices of [0, N) were submitted, each once and in any order,
\* every call before the N-th returns not-yet-complete and stores its
\* payload under its index, and the N-th call returns the N payloads
\* concatenated in ascending index order and leaves the subtree absent.
C14_AnyArrivalOrder ==
    \A h \in ChunkedHashes :
        (/\ IsChunkCall(h)
         /\ ghost[h].created = 1
         /\ ghost[h].n >= 1
         /\ ghost[h].perm # NotPerm)
        => /\ ret.ok
           /\ IF Cardinality(ghost[h].perm) = ghost[h].n
              THEN /\ ret.val.some
                   /\ ret.val.data = ConcatFragments(ghost[h].k, 0, ghost[h].n)
                   /\ SubtreeAbsent(store, h)
              ELSE /\ ~ret.val.some
                   /\ ChunkPath(h, call.i) \in DOMAIN store
                   /\ store[ChunkPath(h, call.i)] = call.data

\* the indices of a transaction of MaxChunks fragments arrive in descending
\* order: the completing call carries fragment 0
C14_Witness ==
    \E h \in ChunkedHashes :
        /\ IsChunkCall(h)
        /\ ghost[h].created = 1
        /\ ghost[h].n = MaxChunks
        /\ ghost[h].perm = 0..(MaxChunks - 1)
        /\ call.i = 0
        /\ ChunkPath(h, MaxChunks - 1) \in DOMAIN pre
        /\ ChunkPath(h, 1) \in DOMAIN pre
        /\ ret.ok
        /\ ret.val.some

\* C15: a store_transaction_chunk call on a subtree that has its metadata
\* returns a payload exactly when, before the call, the subtree had at least
\* as many direct children (the metadata child counted) as the expected
\* count; otherwise it returns not-yet-complete and the fragment has a child
\* that holds the payload.  With an expected count of 3, the calls made with
\* 0 or 1 stored fragments return not-yet-complete and the call made with 2
\* completes; with an expected count of 1 the first call completes.
C15_CompleteByChildCount ==
    \A h \in ChunkedHashes :
        (IsChunkCall(h) /\ NumChunksPath(h) \in DOMAIN pre)
        => LET expected == ExpectedCount(pre, h)
               stored == Cardinality(FragmentChildren(pre, h))
           IN  /\ ret.ok
               /\ ret.val.some <=> Cardinality(Children(pre, h)) >= expected
               /\ ~ret.val.some
                  => /\ ChunkPath(h, call.i) \in DOMAIN store
                     /\ ChunkPath(h, call.i) \notin DOMAIN pre
                        => store[ChunkPath(h, call.i)] = call.data
               /\ (expected = 3 /\ stored \in {0, 1}) => ~ret.val.some
               /\ (expected = 3 /\ stored = 2) => ret.val.some
               /\ (expected = 1 /\ stored = 0) => ret.val.some

\* the first fragment of a transaction of one fragment
C15_Witness ==
    \E h \in ChunkedHashes :
        /\ IsChunkCall(h)
        /\ NumChunksPath(h) \in DOMAIN pre
        /\ ExpectedCount(pre, h) = 1
        /\ Children(pre, h) = {"num_chunks"}
        /\ ghost[h].created = 1
        /\ ret.val.some
        /\ ret.val.data = call.data

\* C16: while a transaction created once with expected count N >= 1 is
\* being reassembled, its subtree holds at most N-1 fragment children, and
\* the call that returns the payload writes nothing to the store: the
\* fragment it carries is never stored.
C16_LastFragmentNotStored ==
    \A h \in ChunkedHashes :
        (ghost[h].created = 1 /\ ghost[h].n >= 1)
        => /\ Cardinality(FragmentChildren(store, h)) <= ghost[h].n - 1
           /\ (IsChunkCall(h) /\ ret.ok /\ ret.val.some)
              => /\ \A j \in 1..Len(log) : log[j].op # "write"
                 /\ \A q \in DOMAIN store : q \in DOMAIN pre /\ store[q] = pre[q]

\* the completing call of a transaction that holds N-1 fragments
C16_Witness ==
    \E h \in ChunkedHashes :
        /\ IsChunkCall(h)
        /\ ghost[h].created = 1
        /\ ghost[h].n = MaxChunks
        /\ Cardinality(FragmentChildren(pre, h)) = MaxChunks - 1
        /\ ChunkPath(h, call.i) \notin DOMAIN pre
        /\ ret.ok
        /\ ret.val.some
        /\ log = <<DeleteEvent(chunked_transaction_path(h))>>

\* The decimal names of the indices below n.
IndexNames(n) == {decimal(i) : i \in 0..(n - 1)}

\* C17: in every reachable state the fragment children of a subtree that
\* has its metadata are children of indices below the expected count, and a
\* store_transaction_chunk call that stores a fragment carries an index
\* below the expected count.
C17_StoredIndicesInRange ==
    \A h \in ChunkedHashes :
        /\ NumChunksPath(h) \in DOMAIN store
           => FragmentChildren(store, h) \subseteq IndexNames(ExpectedCount(store, h))
        /\ (/\ IsChunkCall(h)
            /\ ChunkPath(h, call.i) \in DOMAIN store
            /\ ChunkPath(h, call.i) \notin DOMAIN pre)
           => call.i < ExpectedCount(pre, h)

\* The indices below the expected count of h that have no child in store s:
\* the positions where get_full_transaction puts the payload of the call.
MissingIndices(s, h) ==
    {i \in 0..(ExpectedCount(s, h) - 1) : ChunkPath(h, i) \notin DOMAIN s}

\* C18: whenever store_transaction_chunk returns a payload, exactly one
\* index below the expected count had no stored child, so that the payload
\* of the call stands in the result exactly once, after any sequence of
\* create_chunked_transaction and store_transaction_chunk calls.
C18_ExactlyOneMissing ==
    \A h \in ChunkedHashes :
        (IsChunkCall(h) /\ ret.ok /\ ret.val.some)
        => Cardinality(MissingIndices(pre, h)) = 1

IsCreateCall(h) == call.op = "create_chunked_transaction" /\ call.hash = h

\* C19: create_chunked_transaction(H, n) for a hash that has its metadata
\* succeeds, leaves n as the expected count (the two little-endian bytes of
\* n in the metadata child, which chunked_transaction_num_chunks reads back
\* as n) and leaves every other path as it was, the stored fragments of H
\* included; a second call with the same n changes nothing in the store.
C19_RecreateKeepsFragments ==
    \A h \in ChunkedHashes :
        (IsCreateCall(h) /\ NumChunksPath(h) \in DOMAIN pre)
        => LET back == chunked_transaction_num_chunks(Enter, h)
               again == create_chunked_transaction(Enter, h, call.i)
           IN  /\ ret.ok
               /\ store[NumChunksPath(h)] = <<call.i % 256, call.i \div 256>>
               /\ back.ok
               /\ back.val = call.i
               /\ DOMAIN store = DOMAIN pre
               /\ \A q \in DOMAIN pre \ {NumChunksPath(h)} : store[q] = pre[q]
               /\ again.ok
               /\ again.st.store = store

\* another count is given to a transaction that holds fragments
C19_Witness ==
    \E h \in ChunkedHashes :
        /\ IsCreateCall(h)
        /\ NumChunksPath(h) \in DOMAIN pre
        /\ ExpectedCount(pre, h) = MaxChunks
        /\ call.i = 1
        /\ Cardinality(FragmentChildren(pre, h)) = MaxChunks - 1
        /\ FragmentChildren(store, h) = FragmentChildren(pre, h)
        /\ ExpectedCount(store, h) = 1

(***************************************************************************)
(* SpecTransactions: the read of the transaction list of a block whose     *)
(* transactions value has any length (a partially written list included).  *)
(***************************************************************************)
\* The block whose list is read.
ListedBlock == U256(1, 0)

TransactionsPath(number) == concat(block_path(number), BLOCKS_TRANSACTIONS)

\* The stored values: every length from the empty value to twice what one
\* host read returns.
TransactionsValues ==
    {Payload(len, 11) : len \in 0..(2 * MAX_FILE_CHUNK_SIZE)}

InitTransactions ==
    /\ store \in {[p \in {TransactionsPath(ListedBlock)} |-> v] :
                    v \in TransactionsValues}
    /\ pre = store
    /\ log = <<>>
    /\ call = Call("init", <<>>, 0, <<>>)
    /\ ret = [ok |-> TRUE, err |-> NoError, val |-> <<>>]
    /\ ghost = [h \in TxHashes |-> NoHistory]

\* read_nth_block_transactions on the path of block `number`, as
\* read_current_block_nodebug calls it.
ReadNthBlockTransactions(number) ==
    LET r == read_nth_block_transactions(Enter, block_path(number))
    IN  /\ store' = r.st.store
        /\ log' = r.st.log
        /\ pre' = store
        /\ call' = BlockCall("read_nth_block_transactions",
                             [NoBlock EXCEPT !.number = number])
        /\ ret' = Returned(r)
        /\ UNCHANGED ghost

NextTransactions ==
    \/ ReadNthBlockTransactions(ListedBlock)
    \/ \E t \in TransactionLists :
          StoreBlockByNumber(L2Block_new(ListedBlock, t))

SpecTransactions == InitTransactions /\ [][NextTransactions]_vars

\* The first `count` strides of TRANSACTION_HASH_SIZE bytes of a value.
Strides(bytes, count) ==
    [j \in 1..count |->
        SubSeq(bytes, TRANSACTION_HASH_SIZE * (j - 1) + 1, TRANSACTION_HASH_SIZE * j)]

MaxIsolatedChunks == 2

IsolatedHashes == TxHashes

\* The payload of fragment i of the transaction of h: one byte more than the
\* store's cap at the even indices, the cap at the odd ones, the bytes
\* different for each hash and index.
IsolatedFragment(h, i) == Payload(MAX_FILE_CHUNK_SIZE + 1 - (i % 2), h[1] + i)

\* The store before the first chunked call: a current block, stored by
\* store_current_block on the empty store.
IsolationBlock == L2Block_new(U256(1, 0), <<TxHash(16)>>)
IsolationStore ==
    store_current_block([store |-> EmptyStore, log |-> <<>>, fuel |-> NoFault],
                        IsolationBlock).st.store

\* The host state at the start of a call in the run of the calls for h alone.
EnterAlone(h) == [store |-> ghost[h].store, log |-> <<>>, fuel |-> NoFault]

Alone(h, r) == [ghost EXCEPT ![h] = [store |-> r.st.store, ret |-> Returned(r)]]

InitIsolation ==
    /\ store = IsolationStore
    /\ pre = IsolationStore
    /\ log = <<>>
    /\ call = Call("init", <<>>, 0, <<>>)
    /\ ret = [ok |-> TRUE, err |-> NoError, val |-> <<>>]
    /\ ghost = [h \in IsolatedHashes |->
                  [store |-> IsolationStore,
                   ret |-> [ok |-> TRUE, err |-> NoError, val |-> <<>>]]]

CreateChunkedTransactionAmong(h, n) ==
    LET r == create_chunked_transaction(Enter, h, n)
    IN  /\ store' = r.st.store
        /\ log' = r.st.log
        /\ pre' = store
        /\ call' = Call("create_chunked_transaction", h, n, <<>>)
        /\ ret' = Returned(r)
        /\ ghost' = Alone(h, create_chunked_transaction(EnterAlone(h), h, n))

StoreTransactionChunkAmong(h, i) ==
    LET data == IsolatedFragment(h, i)
        r == store_transaction_chunk(Enter, h, i, data)
    IN  /\ store' = r.st.store
        /\ log' = r.st.log
        /\ pre' = store
        /\ call' = Call("store_transaction_chunk", h, i, data)
        /\ ret' = Returned(r)
        /\ ghost' = Alone(h, store_transaction_chunk(EnterAlone(h), h, i, data))

RemoveChunkedTransactionAmong(h) ==
    LET r == remove_chunked_transaction(Enter, h)
    IN  /\ store' = r.st.store
        /\ log' = r.st.log
        /\ pre' = store
        /\ call' = Call("remove_chunked_transaction", h, 0, <<>>)
        /\ ret' = Returned(r)
        /\ ghost' = Alone(h, remove_chunked_transaction(EnterAlone(h), h))

NextIsolation ==
    \/ \E h \in IsolatedHashes, n \in 1..MaxIsolatedChunks :
          CreateChunkedTransactionAmong(h, n)
    \/ \E h \in IsolatedHashes, i \in 0..(MaxIsolatedChunks - 1) :
          StoreTransactionChunkAmong(h, i)
    \/ \E h \in IsolatedHashes : RemoveChunkedTransactionAmong(h)

SpecIsolation == InitIsolation /\ [][NextIsolation]_vars

\* The part of store s under the chunked path of h.
Subtree(s, h) ==
    [q \in {q \in DOMAIN s : IsPrefix(chunked_transaction_path(h), q)} |-> s[q]]

\* The part of store s outside /chunked_transactions.
OutsideChunked(s) ==
    [q \in {q \in DOMAIN s : ~IsPrefix(CHUNKED_TRANSACTIONS, q)} |-> s[q]]

IsChunkedCall(h) ==
    /\ call.op \in {"create_chunked_transaction", "store_transaction_chunk",
                    "remove_chunked_transaction"}
    /\ call.hash = h

\* C21: create_chunked_transaction, store_transaction_chunk (storing or
\* completing) and remove_chunked_transaction for hash H leave the subtree of
\* every other hash and every path outside /chunked_transactions as they
\* were before the call; so, however the calls for two hashes are
\* interleaved, each call for H returns what it returns in the run of the
\* calls for H alone, and the subtree of H is the subtree of that run.
C21_HashesIsolated ==
    \A h \in IsolatedHashes :
        /\ IsChunkedCall(h)
           => /\ \A other \in IsolatedHashes \ {h} :
                    Subtree(store, other) = Subtree(pre, other)
              /\ OutsideChunked(store) = OutsideChunked(pre)
              /\ Outside(store, h) = Outside(pre, h)
              /\ \A q \in Outside(store, h) : store[q] = pre[q]
              /\ ret = ghost[h].ret
        /\ Subtree(store, h) = Subtree(ghost[h].store, h)
        /\ OutsideChunked(store) = IsolationStore

\* the deliveries of two transactions of two fragments are interleaved: the
\* second fragment of one completes it while the first delivered fragment
\* of the other is stored and stays stored
C21_Witness ==
    \E h \in IsolatedHashes : \E other \in IsolatedHashes \ {h} :
        /\ IsChunkCall(h)
        /\ ret.ok
        /\ ret.val.some
        /\ ret.val.data = IsolatedFragment(h, 0) \o IsolatedFragment(h, 1)
        /\ FragmentChildren(pre, h) = {"0"}
        /\ FragmentChildren(pre, other) = {"1"}
        /\ FragmentChildren(store, other) = {"1"}
        /\ ExpectedCount(store, other) = MaxIsolatedChunks
        /\ SubtreeAbsent(store, h)
        /\ ret = ghost[h].ret

(***************************************************************************)
(* SpecChunkFault: the reassembly of one chunked transaction over a host   *)
(* that may fail one write or delete of a store_transaction_chunk call.    *)
(***************************************************************************)
\* Fragment payloads: the store's cap, and one byte more than the cap.
FaultPayloads == {PayloadList[1], PayloadList[2]}

\* store_transaction_chunk performs at most two host writes (an oversized
\* fragment) or one delete (the completing call): the host fails the first
\* of them, the second, or none.
ChunkFaults == NoFault..1

StoreTransactionChunkFault(h, i, data, fault) ==
    LET r == store_transaction_chunk(EnterWith(fault), h, i, data)
    IN  /\ store' = r.st.store
        /\ log' = r.st.log
        /\ pre' = store
        /\ call' = FaultCall("store_transaction_chunk", h, i, data, NoBlock,
                             NoObject, fault)
        /\ ret' = Returned(r)
        /\ ghost' = [ghost EXCEPT ![h] = Delivered(@, i, data, r)]

NextChunkFault ==
    \/ \E h \in ChunkedHashes, n \in 1..MaxChunks :
          CreateChunkedTransaction(h, n, 0)
    \/ \E h \in ChunkedHashes, i \in 0..(MaxChunks - 1),
          data \in FaultPayloads, fault \in ChunkFaults :
          StoreTransactionChunkFault(h, i, data, fault)
    \/ \E h \in ChunkedHashes : RemoveChunkedTransaction(h)

SpecChunkFault == Init /\ [][NextChunkFault]_vars

\* C22: when store_transaction_chunk returns an error, the subtree of the
\* hash is exactly as it was before the call.
C22_ErrorLeavesSubtree ==
    \A h \in ChunkedHashes :
        (IsChunkCall(h) /\ ~ret.ok) => Subtree(store, h) = Subtree(pre, h)

====
